---- MODULE Spec2Model ----
(***************************************************************************)
(* Reconciliation engine of the Gaming Finance Reconciliation Dashboard    *)
(* (src/app.py): validate_file, reconcile_metric, reconcile_login and the  *)
(* "Run Reconciliation" handler that orchestrates them.                    *)
(*                                                                         *)
(* A DataFrame is a record [columns, index, rows]: the set of ordinary     *)
(* columns, the name of the index ("RangeIndex" or "PlayerID") and the     *)
(* sequence of rows.  A row maps every column (and the index column when   *)
(* the frame is indexed by PlayerID) to a cell.  A cell is <<>> for a null *)
(* (NaN) and <<v>> for the value v.  Metric values, dates included, are    *)
(* integers, so that pre - post is defined; PlayerID values are non-null   *)
(* and unique within a loaded table.                                       *)
(***************************************************************************)
EXTENDS Integers, Sequences, FiniteSets, TLC

\* ---------------------------------------------------------------- bounds
\* Largest batch size tried in place of CHUNK_SIZE.
MaxChunk == 3
\* Most diagnostics writes that may fail in one run.
MaxLogFailures == 2
\* Longest pre_ids list handed to reconcile_login on its own.
MaxPreIds == 3

\* ------------------------------------------------------------ value sets
PlayerIDs == {1, 2, 3}
MetricValues == {0, 1}
Metrics == {"InteractiveBalance", "SubscriptionBalance", "LastLoginDate"}
Labels == {"pre", "prelogin", "int", "sub", "login"}

Null == <<>>
Cell(v) == <<v>>
IsNull(c) == c = Null
None == [none |-> TRUE]

\* pd.DataFrame()
EmptyFrame == [columns |-> {}, index |-> "RangeIndex", rows |-> <<>>]

\* lsuffix="_pre" / rsuffix="_post" applied to the overlapping metric column.
ColPre(metric) ==
  CASE metric = "InteractiveBalance" -> "InteractiveBalance_pre"
    [] metric = "SubscriptionBalance" -> "SubscriptionBalance_pre"
    [] metric = "LastLoginDate" -> "LastLoginDate_pre"

ColPost(metric) ==
  CASE metric = "InteractiveBalance" -> "InteractiveBalance_post"
    [] metric = "SubscriptionBalance" -> "SubscriptionBalance_post"
    [] metric = "LastLoginDate" -> "LastLoginDate_post"

\* ------------------------------------------------------- sequence helpers
RECURSIVE FlattenSeq(_)
FlattenSeq(ss) ==
  IF ss = <<>> THEN <<>> ELSE Head(ss) \o FlattenSeq(Tail(ss))

Min(a, b) == IF a < b THEN a ELSE b

\* ------------------------------------------------------ pandas operations
\* df[[c1, c2]]: a new frame holding the listed columns only.
Project(df, cols) ==
  [columns |-> cols,
   index |-> df.index,
   rows |-> [j \in 1..Len(df.rows) |-> [c \in cols |-> df.rows[j][c]]]]

\* df.dropna(): a new frame without the rows that hold a null in any column.
HasNull(df, row) == \E c \in df.columns : IsNull(row[c])
DropNaKeepsAll(df) == df
DropNa(df) ==
  [df EXCEPT !.rows = SelectSeq(df.rows, LAMBDA r : ~HasNull(df, r))]

\* df.set_index("PlayerID", inplace=True): PlayerID leaves the columns and
\* becomes the index; the rows keep their order.
SetIndex(df) ==
  [df EXCEPT !.columns = df.columns \ {"PlayerID"}, !.index = "PlayerID"]

\* df.index as the sequence of its labels.
IndexOf(df) == [j \in 1..Len(df.rows) |-> df.rows[j]["PlayerID"]]

SeqToSet(s) == {s[j] : j \in 1..Len(s)}

\* Index.unique(): first occurrences, in order.
Unique(s) ==
  LET keep == {j \in 1..Len(s) : \A h \in 1..(j - 1) : s[h] # s[j]}
      RECURSIVE Take(_)
      Take(j) == IF j > Len(s) THEN <<>>
                 ELSE (IF j \in keep THEN <<s[j]>> ELSE <<>>) \o Take(j + 1)
  IN  Take(1)

\* left.intersection(right), sort=False: the labels of left that right also
\* holds, each once, in left's order.
IndexIntersectionRightOrder(left, right) ==
  SelectSeq(Unique(right), LAMBDA k : k \in SeqToSet(left))
IndexIntersection(left, right) ==
  SelectSeq(Unique(left), LAMBDA k : k \in SeqToSet(right))

\* df.loc[ids]: for each label of ids in turn, the rows carrying it.
Loc(df, ids) ==
  [df EXCEPT !.rows =
     FlattenSeq([j \in 1..Len(ids) |->
        SelectSeq(df.rows, LAMBDA r : r["PlayerID"] = ids[j])])]

\* pre - post on cells; a null operand gives a null (NaN).
CellDiff(a, b) ==
  IF IsNull(a) \/ IsNull(b) THEN Null ELSE Cell(a[1] - b[1])

\* merged["diff"] = merged[metric_pre] - merged[metric_post]
DiffOf(pre_value, post_value) == CellDiff(pre_value, post_value)

\* diff != 0 as pandas evaluates it: NaN != 0 is True.
IsMismatch(diff) == diff # Cell(0)

\* pre_chunk.join(post_chunk, lsuffix="_pre", rsuffix="_post") followed by
\* the diff column: a left join on the index.  A left row without a partner
\* gets a null on the right.
JoinRow(lrow, rcell, metric) ==
  [c \in {"PlayerID", ColPre(metric), ColPost(metric), "diff"} |->
     CASE c = "PlayerID" -> lrow["PlayerID"]
       [] c = ColPre(metric) -> lrow[metric]
       [] c = ColPost(metric) -> rcell
       [] c = "diff" -> DiffOf(lrow[metric], rcell)]

JoinDiff(pre_chunk, post_chunk, metric) ==
  [columns |-> {ColPre(metric), ColPost(metric), "diff"},
   index |-> "PlayerID",
   rows |->
     FlattenSeq([j \in 1..Len(pre_chunk.rows) |->
        LET lrow == pre_chunk.rows[j]
            partners == SelectSeq(post_chunk.rows,
                          LAMBDA r : r["PlayerID"] = lrow["PlayerID"])
        IN  IF partners = <<>>
            THEN <<JoinRow(lrow, Null, metric)>>
            ELSE [h \in 1..Len(partners) |->
                    JoinRow(lrow, partners[h][metric], metric)]])]

\* merged[merged["diff"] != 0].reset_index(), then the Metric column.
Mismatches(merged, metric) ==
  LET kept == SelectSeq(merged.rows, LAMBDA r : IsMismatch(r["diff"]))
      cols == merged.columns \cup {"PlayerID", "Metric"}
  IN  [columns |-> cols,
       index |-> "RangeIndex",
       rows |-> [j \in 1..Len(kept) |->
                   [c \in cols |-> IF c = "Metric" THEN Cell(metric)
                                   ELSE kept[j][c]]]]

\* pd.concat(frames, ignore_index=True): the rows of the frames in list
\* order, over the union of their columns, absent cells null.
RECURSIVE UnionColumns(_)
UnionColumns(frames) ==
  IF frames = <<>> THEN {}
  ELSE Head(frames).columns \cup UnionColumns(Tail(frames))

Widen(df, cols) ==
  [j \in 1..Len(df.rows) |->
     [c \in cols |-> IF c \in df.columns THEN df.rows[j][c] ELSE Null]]

Concat(frames) ==
  LET cols == UnionColumns(frames)
  IN  [columns |-> cols,
       index |-> "RangeIndex",
       rows |-> FlattenSeq([j \in 1..Len(frames) |-> Widen(frames[j], cols)])]


\* ------------------------------------------------------------------ state
VARIABLES
  files,         \* what each upload holds: NoFile, or what read_csv makes of it
  names_ok,      \* preparer and reviewer names are both entered
  chunk_size,    \* CHUNK_SIZE
  pc,            \* position in the "Run Reconciliation" handler
  heap,          \* the DataFrame objects: the handler's five and the callee's locals
  fr,            \* the frame of the reconcile_* call in progress
  results,       \* the handler's results list
  all_ex,        \* the concatenated exception report
  outcome,       \* what the run showed the user
  log,           \* entries written to logs/internal_errors.txt
  log_failures,  \* diagnostics writes that failed so far
  calls          \* the reconcile_* invocations made so far, in order

vars == <<files, names_ok, chunk_size, pc, heap, fr, results, all_ex, outcome,
          log, log_failures, calls>>

Objects == Labels \cup {"pre_local", "post_local"}

NoFile == [kind |-> "none"]
\* An upload: whether the 100-row sample parses, whether the full file
\* parses, and the table a full read gives.
Upload(sample_ok, full_ok, table) ==
  [kind |-> "file", sample_ok |-> sample_ok, full_ok |-> full_ok, table |-> table]

NoCall ==
  [op |-> "none", state |-> "idle", pre_df |-> "pre", post_df |-> "pre",
   metric |-> "none", pre_ids |-> <<>>, common_ids |-> <<>>, i |-> 0,
   result |-> <<>>, ret |-> None]

\* ----------------------------------------------------------------- log_msg
\* log_msg(msg): os.makedirs and open(..., "a") may raise; the write either
\* appends the entry or raises to the caller.
CanFail == log_failures < MaxLogFailures
log_msg(entries, msg) == Append(entries, msg)

\* ------------------------------------------------------- reconcile_metric
\* The object a local name is bound to after `df = df[[...]].dropna()`:
\* a new frame, not the caller's.
ReboundInPlace(arg, local) == arg
Rebound(arg, local) == local

\* common_ids[i:i + CHUNK_SIZE]
ChunkIdsShort(common_ids, i, size) ==
  SubSeq(common_ids, i + 1, Min(i + size, Len(common_ids)) - 1)
ChunkIds(common_ids, i, size) ==
  SubSeq(common_ids, i + 1, Min(i + size, Len(common_ids)))

\* lines 32-41: the metric check, the projections, the indexing and the
\* common keys.
MetricEnter ==
  /\ fr.op = "reconcile_metric" /\ fr.state = "called"
  /\ LET pre == heap[fr.pre_df]
         post == heap[fr.post_df]
         m == fr.metric
     IN  IF m \notin pre.columns \/ m \notin post.columns
         THEN \/ /\ log' = log_msg(log, <<"metric not found", m>>)
                 /\ fr' = [fr EXCEPT !.state = "returned", !.ret = EmptyFrame]
                 /\ UNCHANGED <<heap, log_failures>>
              \/ /\ CanFail
                 /\ log_failures' = log_failures + 1
                 /\ fr' = [fr EXCEPT !.state = "raised"]
                 /\ UNCHANGED <<heap, log>>
         ELSE IF "PlayerID" \notin pre.columns \/ "PlayerID" \notin post.columns
         THEN \* KeyError from df[["PlayerID", metric]]
              /\ fr' = [fr EXCEPT !.state = "raised"]
              /\ UNCHANGED <<heap, log, log_failures>>
         ELSE LET pre_obj == Rebound(fr.pre_df, "pre_local")
                  post_obj == Rebound(fr.post_df, "post_local")
                  h1 == [heap EXCEPT ![pre_obj] =
                           DropNa(Project(pre, {"PlayerID", m}))]
                  h2 == [h1 EXCEPT ![post_obj] =
                           DropNa(Project(h1[fr.post_df], {"PlayerID", m}))]
                  h3 == [h2 EXCEPT ![pre_obj] = SetIndex(@)]
                  h4 == [h3 EXCEPT ![post_obj] = SetIndex(@)]
              IN  /\ heap' = h4
                  /\ fr' = [fr EXCEPT
                       !.state = "loop", !.pre_df = pre_obj, !.post_df = post_obj,
                       !.common_ids = IndexIntersection(IndexOf(h4[pre_obj]),
                                                        IndexOf(h4[post_obj])),
                       !.i = 0, !.result = <<>>]
                  /\ UNCHANGED <<log, log_failures>>
  /\ UNCHANGED <<files, names_ok, chunk_size, pc, results, all_ex, outcome, calls>>

\* lines 44-53: one batch.
MetricChunk ==
  /\ fr.op = "reconcile_metric" /\ fr.state = "loop"
  /\ fr.i < Len(fr.common_ids)
  /\ LET chunk_ids == ChunkIds(fr.common_ids, fr.i, chunk_size)
         pre_chunk == Loc(heap[fr.pre_df], chunk_ids)
         post_chunk == Loc(heap[fr.post_df], chunk_ids)
         merged == JoinDiff(pre_chunk, post_chunk, fr.metric)
         mismatches == Mismatches(merged, fr.metric)
     IN  fr' = [fr EXCEPT !.result = Append(@, mismatches),
                          !.i = @ + chunk_size]
  /\ UNCHANGED <<files, names_ok, chunk_size, pc, heap, results, all_ex,
                 outcome, log, log_failures, calls>>

\* line 55: the loop is over; the locals go out of scope.
MetricReturn ==
  /\ fr.op = "reconcile_metric" /\ fr.state = "loop"
  /\ fr.i >= Len(fr.common_ids)
  /\ fr' = [fr EXCEPT !.state = "returned",
                      !.ret = IF fr.result # <<>> THEN Concat(fr.result)
                              ELSE EmptyFrame]
  /\ heap' = [heap EXCEPT !["pre_local"] = None, !["post_local"] = None]
  /\ UNCHANGED <<files, names_ok, chunk_size, pc, results, all_ex, outcome,
                 log, log_failures, calls>>

\* -------------------------------------------------------- input universes
Injective(s) == \A a, b \in 1..Len(s) : s[a] = s[b] => a = b

KeySeqs ==
  UNION {{s \in [1..n -> PlayerIDs] : Injective(s)} :
           n \in 0..Cardinality(PlayerIDs)}

CellValues == {Null} \cup {Cell(v) : v \in MetricValues}

\* The tables read_csv can give over the columns cols with keys ks: PlayerID
\* non-null and unique, every other cell a value or a null.
TablesWithKeys(cols, ks) ==
  LET others == cols \ {"PlayerID"}
  IN  {[columns |-> cols,
        index |-> "RangeIndex",
        rows |-> [j \in 1..Len(ks) |->
                    [c \in cols |-> IF c = "PlayerID" THEN Cell(ks[j])
                                    ELSE vs[j][c]]]] :
         vs \in [1..Len(ks) -> [others -> CellValues]]}

TablesOver(cols) ==
  IF "PlayerID" \in cols
  THEN UNION {TablesWithKeys(cols, ks) : ks \in KeySeqs}
  ELSE UNION {TablesWithKeys(cols, ks) : ks \in {<<>>, <<1>>}}

\* ------------------------------------------- reconcile_metric on its own
HarnessMetrics == {"InteractiveBalance"}

MetricColumnSets(m) == {{"PlayerID", m}, {"PlayerID"}, {m}}

InitMetric ==
  /\ files = [l \in Labels |-> NoFile]
  /\ names_ok = TRUE
  /\ chunk_size \in 1..MaxChunk
  /\ pc = "harness"
  /\ \E m \in HarnessMetrics :
       /\ \E pc_ \in MetricColumnSets(m), qc \in MetricColumnSets(m) :
            \E p \in TablesOver(pc_), q \in TablesOver(qc) :
              heap = [o \in Objects |->
                        IF o = "pre" THEN p ELSE IF o = "int" THEN q ELSE None]
       /\ fr = [NoCall EXCEPT !.op = "reconcile_metric", !.state = "called",
                              !.pre_df = "pre", !.post_df = "int", !.metric = m]
  /\ results = <<>>
  /\ all_ex = None
  /\ outcome = "none"
  /\ log = <<>>
  /\ log_failures = 0
  /\ calls = <<>>

NextMetric == MetricEnter \/ MetricChunk \/ MetricReturn

SpecMetric == InitMetric /\ [][NextMetric]_vars


\* ----------------------------------------- properties of reconcile_metric
\* The tables and the metric handed to the call under SpecMetric.
ArgPre == heap["pre"]
ArgPost == heap["int"]
MetricCallOver ==
  pc = "harness" /\ fr.op = "reconcile_metric" /\ fr.state \in {"returned", "raised"}
MetricReturned ==
  pc = "harness" /\ fr.op = "reconcile_metric" /\ fr.state = "returned"
BothHave(c) == c \in ArgPre.columns /\ c \in ArgPost.columns
Comparable == BothHave("PlayerID") /\ BothHave(fr.metric)

RowsOfKey(df, k) == {j \in 1..Len(df.rows) : df.rows[j]["PlayerID"] = Cell(k)}
HasValue(df, m, k) == \E j \in RowsOfKey(df, k) : ~IsNull(df.rows[j][m])
ValueOf(df, m, k) == df.rows[CHOOSE j \in RowsOfKey(df, k) : TRUE][m][1]
Differs(k) ==
  /\ HasValue(ArgPre, fr.metric, k)
  /\ HasValue(ArgPost, fr.metric, k)
  /\ ValueOf(ArgPre, fr.metric, k) - ValueOf(ArgPost, fr.metric, k) # 0

\* C1: over tables with unique keys that both hold the metric column, a key
\* has a row in the output of reconcile_metric iff it has a non-null value on
\* both sides and pre - post is not 0; the row carries the pre value, the post
\* value, diff = pre - post and Metric = metric.
C1_RowIffBothValuesDiffer ==
  (MetricReturned /\ Comparable) =>
    \A k \in PlayerIDs :
      LET out == RowsOfKey(fr.ret, k)
      IN  IF Differs(k)
          THEN /\ Cardinality(out) = 1
               /\ \A j \in out :
                    LET r == fr.ret.rows[j]
                        a == ValueOf(ArgPre, fr.metric, k)
                        b == ValueOf(ArgPost, fr.metric, k)
                    IN  /\ DOMAIN r = {"PlayerID", ColPre(fr.metric),
                                       ColPost(fr.metric), "diff", "Metric"}
                        /\ r[ColPre(fr.metric)] = Cell(a)
                        /\ r[ColPost(fr.metric)] = Cell(b)
                        /\ r["diff"] = Cell(a - b)
                        /\ r["Metric"] = Cell(fr.metric)
          ELSE out = {}

\* A call that reports one key and leaves out one with equal values and one
\* with a null or with a row on one side only.
C1_Witness ==
  /\ MetricReturned /\ Comparable
  /\ \E k1, k2, k3 \in PlayerIDs :
       /\ Differs(k1) /\ RowsOfKey(fr.ret, k1) # {}
       /\ HasValue(ArgPre, fr.metric, k2) /\ HasValue(ArgPost, fr.metric, k2)
       /\ ~Differs(k2)
       /\ RowsOfKey(ArgPre, k3) # {}
       /\ ~HasValue(ArgPre, fr.metric, k3) \/ RowsOfKey(ArgPost, k3) = {}

\* All common keys in one batch.
SingleBatchRows(pre, post, m) ==
  LET p == SetIndex(DropNa(Project(pre, {"PlayerID", m})))
      q == SetIndex(DropNa(Project(post, {"PlayerID", m})))
      ids == IndexIntersection(IndexOf(p), IndexOf(q))
  IN  Mismatches(JoinDiff(Loc(p, ids), Loc(q, ids), m), m).rows

\* C2: whatever the batch size, reconcile_metric returns the rows, in the
\* order, that one batch over all common keys gives.
C2_BatchSizeIrrelevant ==
  (MetricReturned /\ Comparable) =>
    fr.ret.rows = SingleBatchRows(ArgPre, ArgPost, fr.metric)

\* Three common keys in batches of two, with rows out of both batches.
C2_Witness ==
  /\ MetricReturned /\ Comparable
  /\ Len(fr.common_ids) = 3 /\ chunk_size = 2 /\ Len(fr.result) = 2
  /\ fr.result[1].rows # <<>> /\ fr.result[2].rows # <<>>

PositionIn(df, key) == CHOOSE j \in 1..Len(df.rows) : df.rows[j]["PlayerID"] = key

\* C9: the rows of the output follow the order of their keys in pre, whatever
\* the order of the rows of post.
C9_OutputInPreOrder ==
  (MetricReturned /\ Comparable) =>
    \A a, b \in 1..Len(fr.ret.rows) :
      a < b => PositionIn(ArgPre, fr.ret.rows[a]["PlayerID"])
                 < PositionIn(ArgPre, fr.ret.rows[b]["PlayerID"])

\* Two reported keys that post lists the other way round, and that are not
\* in ascending order in pre either.
C9_Witness ==
  /\ MetricReturned /\ Comparable
  /\ \E a, b \in 1..Len(fr.ret.rows) :
       /\ a < b
       /\ fr.ret.rows[a]["PlayerID"][1] > fr.ret.rows[b]["PlayerID"][1]
       /\ PositionIn(ArgPost, fr.ret.rows[a]["PlayerID"])
            > PositionIn(ArgPost, fr.ret.rows[b]["PlayerID"])

\* C4: with the metric missing from pre or from post, reconcile_metric writes
\* one diagnostic entry and returns an empty table: it does not raise and it
\* builds no projection.
C4_MissingMetricSoftNoOp ==
  (MetricCallOver /\ ~BothHave(fr.metric)) =>
    /\ fr.state = "returned"
    /\ fr.ret = EmptyFrame
    /\ log = <<<<"metric not found", fr.metric>>>>
    /\ heap["pre_local"] = None /\ heap["post_local"] = None


\* --------------------------------------------------------- reconcile_login
\* [pid for pid in pre_ids if pid not in post_df.index]
MissingIdsOnce(pre_ids, index) ==
  Unique(SelectSeq(pre_ids, LAMBDA pid : pid \notin SeqToSet(index)))
MissingIds(pre_ids, index) ==
  SelectSeq(pre_ids, LAMBDA pid : pid \notin SeqToSet(index))

\* pd.DataFrame({"PlayerID": missing, "Metric": ..., "Status": ...})
MissingFrame(missing) ==
  [columns |-> {"PlayerID", "Metric", "Status"},
   index |-> "RangeIndex",
   rows |-> [j \in 1..Len(missing) |->
               [c \in {"PlayerID", "Metric", "Status"} |->
                  CASE c = "PlayerID" -> missing[j]
                    [] c = "Metric" -> Cell("LastLoginDate")
                    [] c = "Status" -> Cell("Missing Post")]]]

\* lines 58-62, the whole call.
ReconcileLogin ==
  /\ fr.op = "reconcile_login" /\ fr.state = "called"
  /\ LET post == heap[fr.post_df]
     IN  IF ~({"PlayerID", "LastLoginDate"} \subseteq post.columns)
         THEN \* KeyError from post_df[["PlayerID", "LastLoginDate"]]
              /\ fr' = [fr EXCEPT !.state = "raised"]
              /\ UNCHANGED heap
         ELSE LET post_obj == Rebound(fr.post_df, "post_local")
                  h1 == [heap EXCEPT ![post_obj] =
                           DropNa(Project(post, {"PlayerID", "LastLoginDate"}))]
                  h2 == [h1 EXCEPT ![post_obj] = SetIndex(@)]
                  missing == MissingIds(fr.pre_ids, IndexOf(h2[post_obj]))
              IN  /\ fr' = [fr EXCEPT !.state = "returned",
                                      !.ret = MissingFrame(missing)]
                  /\ heap' = [h2 EXCEPT !["post_local"] = None]
  /\ UNCHANGED <<files, names_ok, chunk_size, pc, results, all_ex, outcome,
                 log, log_failures, calls>>

\* -------------------------------------------- reconcile_login on its own
PreIdLists ==
  UNION {[1..n -> {Cell(k) : k \in PlayerIDs}] : n \in 0..MaxPreIds}

LoginColumnSets == {{"PlayerID", "LastLoginDate"}, {"PlayerID"}}

InitLogin ==
  /\ files = [l \in Labels |-> NoFile]
  /\ names_ok = TRUE
  /\ chunk_size = 1
  /\ pc = "harness"
  /\ \E qc \in LoginColumnSets :
       \E q \in TablesOver(qc) :
         heap = [o \in Objects |-> IF o = "login" THEN q ELSE None]
  /\ \E ids \in PreIdLists :
       fr = [NoCall EXCEPT !.op = "reconcile_login", !.state = "called",
                           !.post_df = "login", !.metric = "LastLoginDate",
                           !.pre_ids = ids]
  /\ results = <<>>
  /\ all_ex = None
  /\ outcome = "none"
  /\ log = <<>>
  /\ log_failures = 0
  /\ calls = <<>>

NextLogin == ReconcileLogin

SpecLogin == InitLogin /\ [][NextLogin]_vars

\* ------------------------------------------ properties of reconcile_login
LoginPost == heap["login"]
LoginReturned ==
  pc = "harness" /\ fr.op = "reconcile_login" /\ fr.state = "returned"
HasDate(key) ==
  \E j \in 1..Len(LoginPost.rows) :
    /\ LoginPost.rows[j]["PlayerID"] = key
    /\ ~IsNull(LoginPost.rows[j]["LastLoginDate"])
MissingPositions == {j \in 1..Len(fr.pre_ids) : ~HasDate(fr.pre_ids[j])}
NthOf(S, n) == CHOOSE j \in S : Cardinality({h \in S : h <= j}) = n

\* C3: reconcile_login returns one Missing Post row for each entry of pre_ids
\* that is not the PlayerID of a post row with a non-null LastLoginDate, in
\* the order of pre_ids, and nothing else.
C3_LoginReportsMissingInOrder ==
  (LoginReturned /\ {"PlayerID", "LastLoginDate"} \subseteq LoginPost.columns) =>
    /\ Len(fr.ret.rows) = Cardinality(MissingPositions)
    /\ \A n \in 1..Len(fr.ret.rows) :
         fr.ret.rows[n] =
           [c \in {"PlayerID", "Metric", "Status"} |->
              CASE c = "PlayerID" -> fr.pre_ids[NthOf(MissingPositions, n)]
                [] c = "Metric" -> Cell("LastLoginDate")
                [] c = "Status" -> Cell("Missing Post")]

\* A call that reports a key whose only post row has a null date, then a
\* smaller key absent from post, and leaves out a key that has a date.
C3_Witness ==
  /\ LoginReturned
  /\ Len(fr.ret.rows) >= 2
  /\ fr.ret.rows[1]["PlayerID"][1] > fr.ret.rows[2]["PlayerID"][1]
  /\ \E j \in 1..Len(LoginPost.rows) :
       /\ LoginPost.rows[j]["PlayerID"] = fr.ret.rows[1]["PlayerID"]
       /\ IsNull(LoginPost.rows[j]["LastLoginDate"])
  /\ \E j \in 1..Len(fr.pre_ids) : HasDate(fr.pre_ids[j])


\* ----------------------------------------------------------- validate_file
LogCalls == {"columns", "warning", "failed"}

\* lines 19-25, the try block: the sample read, the column entry, the
\* missing-column entry and the full read.  `fails` names the log_msg calls
\* whose write fails.
ValidateTry(label, file, required_cols, fails) ==
  IF ~file.sample_ok
  THEN [ok |-> FALSE, entries |-> <<>>, failed |-> 0]
  ELSE IF "columns" \in fails
  THEN [ok |-> FALSE, entries |-> <<>>, failed |-> 1]
  ELSE LET missing == required_cols \ file.table.columns
           e1 == log_msg(<<>>, <<"columns", label>>)
       IN  IF missing # {} /\ "warning" \in fails
           THEN [ok |-> FALSE, entries |-> e1, failed |-> 1]
           ELSE [ok |-> file.full_ok,
                 entries |-> IF missing # {}
                             THEN log_msg(e1, <<"missing columns", label>>)
                             ELSE e1,
                 failed |-> 0]

\* lines 17-28: what validate_file returns or raises, the entries it
\* writes and the number of writes that failed.
validate_file(label, file, required_cols, fails) ==
  LET t == ValidateTry(label, file, required_cols, fails)
  IN  IF t.ok
      THEN [ret |-> file.table, raised |-> FALSE,
            entries |-> t.entries, failed |-> t.failed]
      ELSE IF "failed" \in fails
      THEN [ret |-> None, raised |-> TRUE,
            entries |-> t.entries, failed |-> t.failed + 1]
      ELSE [ret |-> None, raised |-> FALSE,
            entries |-> log_msg(t.entries, <<"validation failed", label>>),
            failed |-> t.failed]

\* ------------------------------------------- the Run Reconciliation handler
ReconcilePcs == {"r_int", "r_sub", "r_login"}

\* lines 86-90: the button's guards.
PressButton ==
  /\ pc = "start"
  /\ IF files["pre"] = NoFile
     THEN outcome' = "need_pre_file" /\ pc' = "done"
     ELSE IF ~names_ok
     THEN outcome' = "need_names" /\ pc' = "done"
     ELSE outcome' = outcome /\ pc' = "v_pre"
  /\ UNCHANGED <<files, names_ok, chunk_size, heap, fr, results, all_ex,
                 log, log_failures, calls>>

\* One of lines 104-108: validate_file on the upload when there is one.
LoadSource(label, here, next) ==
  /\ pc = here
  /\ IF files[label] = NoFile
     THEN /\ pc' = next
          /\ UNCHANGED <<heap, log, log_failures, outcome>>
     ELSE \E fails \in SUBSET LogCalls :
            LET r == validate_file(label, files[label], {}, fails)
            IN  /\ log_failures + r.failed <= MaxLogFailures
                /\ log_failures' = log_failures + r.failed
                /\ log' = log \o r.entries
                /\ IF r.raised
                   THEN outcome' = "exception" /\ pc' = "done" /\ heap' = heap
                   ELSE /\ outcome' = outcome /\ pc' = next
                        /\ heap' = [heap EXCEPT ![label] = r.ret]
  /\ UNCHANGED <<files, names_ok, chunk_size, fr, results, all_ex, calls>>

LoadPre == LoadSource("pre", "v_pre", "v_prelogin")
LoadPreLogin == LoadSource("prelogin", "v_prelogin", "v_int")
LoadInt == LoadSource("int", "v_int", "v_sub")
LoadSub == LoadSource("sub", "v_sub", "v_login")
LoadLogin == LoadSource("login", "v_login", "check")

\* line 110
PreLoadFailedIgnored(h) == FALSE
PreLoadFailed(h) == h["pre"] = None

\* lines 110-113
CheckPre ==
  /\ pc = "check"
  /\ IF PreLoadFailed(heap)
     THEN outcome' = "pre_error" /\ pc' = "done"
     ELSE outcome' = outcome /\ pc' = "r_int"
  /\ results' = <<>>
  /\ UNCHANGED <<files, names_ok, chunk_size, heap, fr, all_ex, log,
                 log_failures, calls>>

MetricCall(pre, post, metric) ==
  [NoCall EXCEPT !.op = "reconcile_metric", !.state = "called",
                 !.pre_df = pre, !.post_df = post, !.metric = metric]

CallRecord(call) ==
  [op |-> call.op, metric |-> call.metric, pre |-> call.pre_df,
   post |-> call.post_df]

\* lines 115-116
CallInteractive ==
  /\ pc = "r_int" /\ fr.state = "idle"
  /\ IF heap["int"] # None
     THEN LET c == MetricCall("pre", "int", "InteractiveBalance")
          IN  fr' = c /\ calls' = Append(calls, CallRecord(c)) /\ pc' = pc
     ELSE pc' = "r_sub" /\ UNCHANGED <<fr, calls>>
  /\ UNCHANGED <<files, names_ok, chunk_size, heap, results, all_ex, outcome,
                 log, log_failures>>

\* lines 117-118
CallSubscription ==
  /\ pc = "r_sub" /\ fr.state = "idle"
  /\ IF heap["sub"] # None
     THEN LET c == MetricCall("pre", "sub", "SubscriptionBalance")
          IN  fr' = c /\ calls' = Append(calls, CallRecord(c)) /\ pc' = pc
     ELSE pc' = "r_login" /\ UNCHANGED <<fr, calls>>
  /\ UNCHANGED <<files, names_ok, chunk_size, heap, results, all_ex, outcome,
                 log, log_failures>>

\* lines 119 and 121: which login operation applies.
LoginChoiceWithoutPreLogin(h) ==
  IF h["login"] # None THEN "reconcile_login" ELSE "none"
LoginChoice(h) ==
  IF h["login"] # None /\ h["prelogin"] # None THEN "reconcile_metric"
  ELSE IF h["login"] # None THEN "reconcile_login"
  ELSE "none"

\* lines 119-122
CallLogin ==
  /\ pc = "r_login" /\ fr.state = "idle"
  /\ LET choice == LoginChoice(heap)
     IN  IF choice = "reconcile_metric"
         THEN LET c == MetricCall("prelogin", "login", "LastLoginDate")
              IN  /\ fr' = c /\ calls' = Append(calls, CallRecord(c))
                  /\ pc' = pc /\ outcome' = outcome
         ELSE IF choice = "reconcile_login"
         THEN IF "PlayerID" \notin heap["pre"].columns
              THEN \* KeyError from pre_df["PlayerID"]
                   /\ outcome' = "exception" /\ pc' = "done"
                   /\ UNCHANGED <<fr, calls>>
              ELSE LET c == [NoCall EXCEPT
                               !.op = "reconcile_login", !.state = "called",
                               !.pre_df = "pre", !.post_df = "login",
                               !.metric = "LastLoginDate",
                               !.pre_ids = IndexOf(heap["pre"])]
                   IN  /\ fr' = c /\ calls' = Append(calls, CallRecord(c))
                       /\ pc' = pc /\ outcome' = outcome
         ELSE pc' = "concat" /\ outcome' = outcome /\ UNCHANGED <<fr, calls>>
  /\ UNCHANGED <<files, names_ok, chunk_size, heap, results, all_ex,
                 log, log_failures>>

AfterCall(here) ==
  CASE here = "r_int" -> "r_sub"
    [] here = "r_sub" -> "r_login"
    [] here = "r_login" -> "concat"

\* results.append(...) with the value the call returned.
AppendResult ==
  /\ pc \in ReconcilePcs /\ fr.state = "returned"
  /\ results' = Append(results, fr.ret)
  /\ fr' = NoCall
  /\ pc' = AfterCall(pc)
  /\ UNCHANGED <<files, names_ok, chunk_size, heap, all_ex, outcome, log,
                 log_failures, calls>>

\* An exception raised in a reconcile_* call is caught nowhere.
Uncaught ==
  /\ pc \in ReconcilePcs /\ fr.state = "raised"
  /\ outcome' = "exception"
  /\ pc' = "done"
  /\ fr' = NoCall
  /\ heap' = [heap EXCEPT !["pre_local"] = None, !["post_local"] = None]
  /\ UNCHANGED <<files, names_ok, chunk_size, results, all_ex, log,
                 log_failures, calls>>

\* lines 124-153: the report and its summary.
Report ==
  /\ pc = "concat"
  /\ LET ex == IF results # <<>> THEN Concat(results) ELSE EmptyFrame
     IN  /\ all_ex' = ex
         /\ outcome' = IF ex.rows # <<>> THEN "exceptions" ELSE "no_mismatch"
  /\ pc' = "done"
  /\ UNCHANGED <<files, names_ok, chunk_size, heap, fr, results, log,
                 log_failures, calls>>

\* ------------------------------------------------------------ the uploads
SourceColumns(label) ==
  CASE label = "pre" ->
         {"PlayerID", "InteractiveBalance", "SubscriptionBalance"}
    [] label = "prelogin" -> {"PlayerID", "LastLoginDate"}
    [] label = "int" -> {"PlayerID", "InteractiveBalance"}
    [] label = "sub" -> {"PlayerID", "SubscriptionBalance"}
    [] label = "login" -> {"PlayerID", "LastLoginDate"}

\* One-row tables of player 1.  The pre file carries balances of 1, the
\* post files carry 0 or 1, the post login file may carry a null date; a
\* file may also lack its last metric column.
RunTables(label) ==
  LET full == TablesWithKeys(SourceColumns(label), <<1>>)
      cells(t) == {t.rows[1][c] : c \in t.columns \ {"PlayerID"}}
  IN  IF label = "pre"
      THEN {t \in full : cells(t) = {Cell(1)}}
           \cup {t \in TablesWithKeys({"PlayerID", "InteractiveBalance"}, <<1>>) :
                   cells(t) = {Cell(1)}}
      ELSE IF label = "login"
      THEN full \cup TablesWithKeys({"PlayerID"}, <<1>>)
      ELSE {t \in full : ~HasNull(t, t.rows[1])}
           \cup TablesWithKeys({"PlayerID"}, <<1>>)

\* A file whose first 100 rows parse while a later row does not.
BadTail(label) ==
  IF label \in {"pre", "login"}
  THEN {Upload(TRUE, FALSE, t) :
          t \in {u \in TablesWithKeys(SourceColumns(label), <<1>>) :
                   \A c \in u.columns \ {"PlayerID"} : u.rows[1][c] = Cell(1)}}
  ELSE {}

Uploads(label) ==
  {Upload(TRUE, TRUE, t) : t \in RunTables(label)}
  \cup {Upload(FALSE, FALSE, EmptyFrame)}
  \cup BadTail(label)

Supplied(label) == Uploads(label) \cup {NoFile}

Init ==
  /\ files \in [pre : Supplied("pre"), prelogin : Supplied("prelogin"),
                int : Supplied("int"), sub : Supplied("sub"),
                login : Supplied("login")]
  /\ names_ok \in BOOLEAN
  /\ chunk_size = MaxChunk
  /\ pc = "start"
  /\ heap = [o \in Objects |-> None]
  /\ fr = NoCall
  /\ results = <<>>
  /\ all_ex = None
  /\ outcome = "none"
  /\ log = <<>>
  /\ log_failures = 0
  /\ calls = <<>>

Next ==
  \/ PressButton
  \/ LoadPre \/ LoadPreLogin \/ LoadInt \/ LoadSub \/ LoadLogin
  \/ CheckPre
  \/ CallInteractive \/ CallSubscription \/ CallLogin
  \/ MetricEnter \/ MetricChunk \/ MetricReturn
  \/ ReconcileLogin
  \/ AppendResult \/ Uncaught
  \/ Report

Spec == Init /\ [][Next]_vars


\* ------------------------------------------------- properties of the run
ReportOutcomes == {"exceptions", "no_mismatch"}
OptionalLabels == Labels \ {"pre"}
RunStarted == pc # "start" /\ outcome \notin {"need_pre_file", "need_names"}
Readable(label) ==
  files[label] # NoFile /\ files[label].sample_ok /\ files[label].full_ok
MetricsOfRows(df) == {df.rows[j]["Metric"][1] : j \in 1..Len(df.rows)}
CalledMetrics == {calls[j].metric : j \in 1..Len(calls)}

\* C5: once the pre-balances file has failed to load, no reconcile_* call is
\* ever made, no report or summary is produced, and the run ends in an error
\* (the pre-file error, or an uncaught exception), whatever the other uploads.
C5_PreFailureStopsTheRun ==
  (RunStarted /\ pc # "v_pre" /\ heap["pre"] = None) =>
    /\ calls = <<>> /\ fr = NoCall /\ results = <<>>
    /\ all_ex = None
    /\ outcome \notin ReportOutcomes
    /\ pc = "done" => outcome \in {"pre_error", "exception"}

\* The run ends with the pre-file error although an optional file loaded and
\* another one failed.
C5_Witness ==
  /\ pc = "done" /\ outcome = "pre_error" /\ heap["pre"] = None
  /\ heap["int"] # None
  /\ files["login"] # NoFile /\ heap["login"] = None

LoginMetric(pre, post) ==
  [op |-> "reconcile_metric", metric |-> "LastLoginDate", pre |-> pre, post |-> post]

\* The invocations the loaded tables call for, in order.
ExpectedCalls ==
  (IF heap["int"] # None
   THEN <<[op |-> "reconcile_metric", metric |-> "InteractiveBalance",
           pre |-> "pre", post |-> "int"]>>
   ELSE <<>>)
  \o (IF heap["sub"] # None
      THEN <<[op |-> "reconcile_metric", metric |-> "SubscriptionBalance",
              pre |-> "pre", post |-> "sub"]>>
      ELSE <<>>)
  \o (IF heap["login"] = None THEN <<>>
      ELSE IF heap["prelogin"] # None
      THEN <<LoginMetric("prelogin", "login")>>
      ELSE <<[op |-> "reconcile_login", metric |-> "LastLoginDate",
              pre |-> "pre", post |-> "login"]>>)

IsPrefix(s, t) == Len(s) <= Len(t) /\ \A j \in 1..Len(s) : s[j] = t[j]

RECURSIVE RowsBefore(_)
RowsBefore(j) ==
  IF j <= 1 THEN 0 ELSE RowsBefore(j - 1) + Len(results[j - 1].rows)

\* C8: the reconcile_* calls are made one at a time, at most once each, in
\* the order InteractiveBalance, SubscriptionBalance, LastLoginDate, the login
\* operation being reconcile_metric when both activity tables are loaded,
\* reconcile_login when only the post one is, none otherwise; and the report
\* is the outputs of the calls, one after the other in that order.
C8_FixedOrderAndConcatenation ==
  /\ (pc \in ReconcilePcs \cup {"concat"} \/ (pc = "done" /\ heap["pre"] # None))
       => IsPrefix(calls, ExpectedCalls)
  /\ outcome \in ReportOutcomes =>
       /\ calls = ExpectedCalls
       /\ Len(results) = Len(calls)
       /\ \A j \in 1..Len(results) : MetricsOfRows(results[j]) \subseteq {calls[j].metric}
       /\ Len(all_ex.rows) = RowsBefore(Len(results) + 1)
       /\ \A j \in 1..Len(results) :
            \A n \in 1..Len(results[j].rows) :
              \A c \in all_ex.columns :
                all_ex.rows[RowsBefore(j) + n][c] =
                  IF c \in results[j].columns THEN results[j].rows[n][c] ELSE Null

\* A report of three calls that each contributed a row, the last one
\* reconcile_metric over the two activity tables.
C8_Witness ==
  /\ outcome = "exceptions" /\ Len(calls) = 3
  /\ calls[3] = LoginMetric("prelogin", "login")
  /\ \A j \in 1..3 : results[j].rows # <<>>

DependsOn(label) ==
  CASE label = "int" -> {"InteractiveBalance"}
    [] label = "sub" -> {"SubscriptionBalance"}
    [] label \in {"prelogin", "login"} -> {"LastLoginDate"}

FailedToLoad(label) == files[label] # NoFile /\ heap[label] = None

\* C6: in a run whose pre-balances file loaded and that ended with a report,
\* an optional file that failed to load has no reconcile_* call and no
\* report row for the metrics that depend on it.
C6_OptionalFailureDisablesItsMetric ==
  (pc = "done" /\ RunStarted /\ heap["pre"] # None /\ outcome \in ReportOutcomes) =>
    \A l \in OptionalLabels :
      FailedToLoad(l) =>
        /\ DependsOn(l) \cap CalledMetrics = {}
        /\ DependsOn(l) \cap MetricsOfRows(all_ex) = {}

\* C7: a failed write to the diagnostics log never aborts the run: whenever
\* a log_msg call has failed the run still ends with a report or the
\* pre-file error, and every readable upload is loaded.
C7_LogFailureNeverAborts ==
  (pc = "done" /\ RunStarted /\ log_failures > 0) =>
    /\ outcome \in ReportOutcomes \cup {"pre_error"}
    /\ \A l \in Labels : Readable(l) => heap[l] = files[l].table

\* C10: the reconcile_* calls leave the loaded tables as they were loaded,
\* PlayerID an ordinary column and the nulls in place, so every call and the
\* key list given to reconcile_login see the tables as read.
C10_LoadedTablesIntact ==
  /\ \A l \in Labels :
       heap[l] # None => files[l] # NoFile /\ heap[l] = files[l].table
  /\ fr.op = "reconcile_login" => fr.pre_ids = IndexOf(files["pre"].table)

\* A finished run of two reconcile_metric calls and a reconcile_login call
\* over a post login table that holds a null date.
C10_Witness ==
  /\ pc = "done" /\ outcome \in ReportOutcomes
  /\ Len(calls) = 3 /\ calls[3].op = "reconcile_login"
  /\ heap["login"] # None
  /\ IsNull(heap["login"].rows[1]["LastLoginDate"])
  /\ heap["pre"] = files["pre"].table

====
